---- MODULE Spec2Model ----
(***************************************************************************)
(* A model of iscript's mac signing / notarization functions               *)
(* (src/iscript/src/iscript/mac.py).                                       *)
(*                                                                         *)
(* Each entry point is modelled with its own initial condition and         *)
(* next-state relation over the same variables:                            *)
(*   wrap_notarization_with_sudo   InitNotarize / NextNotarize             *)
(*   sign                          InitSign     / NextSign                 *)
(*   unlock_keychain               InitUnlock   / NextUnlock               *)
(*   extract_all_apps              InitExtract  / NextExtract              *)
(*   create_all_app_zipfiles       InitZip      / NextZip                  *)
(*   sign_and_notarize_all         InitPipeline / NextPipeline             *)
(*   concurrent calls of sign      InitConcurrent / NextConcurrent         *)
(*                                                                         *)
(* Strings that the code builds by formatting or joining are modelled as   *)
(* sequences of chunks (a "text"): a literal is a one-chunk text, a number *)
(* is the sequence of its decimal digits, and concatenation is \o.         *)
(***************************************************************************)
EXTENDS Integers, Sequences, FiniteSets, TLC

VARIABLES
    \* ---- inputs of wrap_notarization_with_sudo
    accounts,       \* config['local_notarization_accounts']
    key_config,     \* the resolved key configuration
    task_id,        \* os.environ.get('TASK_ID', 'None')
    all_paths,      \* the list of App records
    \* ---- wrap_notarization_with_sudo
    n_pc,           \* position in wrap_notarization_with_sudo
    counter,        \* its local `counter`
    acct,           \* position of the `for account in accounts` loop (1-based)
    futures,        \* its local `futures`: the submissions of the current wave
    now,            \* the clock arrow.utcnow() reads
    issued,         \* history: every submission issued so far
    waves,          \* history: number of times the while body was entered
    n_error,        \* what wrap_notarization_with_sudo raised
    \* ---- sign
    s_pc,           \* position in sign
    s_key_known,    \* whether config['mac_config'] has the key
    s_app,          \* sign's `app` argument
    bundle,         \* the files of the .app bundle (paths relative to it)
    n_app_dirs,     \* number of *.app directories in app.parent_dir
    initial_files,  \* sign's local `initial_files`
    s_tasks,        \* history: every command sign has created, with its state
    s_futures,      \* sign's local `futures`: the commands it awaits
    semaphore,      \* free slots of asyncio.Semaphore(10)
    s_error,        \* what sign raised
    s_outcomes,     \* environment: how the commands of sign will exit
    \* ---- unlock_keychain
    u_pc,           \* position in unlock_keychain
    keychain_password, \* the keychain_password argument
    child,          \* the spawned `security unlock-keychain` process
    prompts,        \* number of password prompts the child has printed
    elapsed,        \* time since the spawn, in units of the pexpect timeout
    index,          \* unlock_keychain's local `index`
    sendline_calls, \* history: the arguments of child.sendline calls
    u_error,        \* what unlock_keychain raised
    \* ---- extract_all_apps
    e_pc,           \* position in extract_all_apps
    e_counter,      \* its loop variable `counter`
    e_tasks,        \* its local `futures`: the extractions, with their state
    e_error,        \* what extract_all_apps raised
    fs,             \* the file system: for each work directory, the runs
                    \* whose files it holds ({} is empty)
    e_run,          \* number of the current run of the worker
    e_used,         \* history: the work directories earlier runs have used
    \* ---- create_all_app_zipfiles
    z_pc,           \* position in create_all_app_zipfiles
    z_counter,      \* number of records its loop has gone through
    z_tasks,        \* its local `futures`: the archive creations
    z_error,        \* what create_all_app_zipfiles raised
    \* ---- sign_and_notarize_all
    p_pc,           \* position in sign_and_notarize_all
    p_has_key,      \* whether config['mac_config'] has the key 'dep'
    p_artifacts,    \* number of upstream artifacts of the task
    p_stages,       \* history: the stages the run has entered, in order
    p_error,        \* what sign_and_notarize_all raised
    \* ---- several calls of sign in one event loop
    c_calls         \* for each call: its position, its semaphore, its files

n_vars == <<accounts, key_config, task_id, all_paths, n_pc, counter, acct,
            futures, now, issued, waves, n_error>>
s_vars == <<s_pc, s_key_known, s_app, bundle, n_app_dirs, initial_files,
            s_tasks, s_futures, semaphore, s_error, s_outcomes>>
u_vars == <<u_pc, keychain_password, child, prompts, elapsed, index,
            sendline_calls, u_error>>
e_vars == <<e_pc, e_counter, e_tasks, e_error, fs, e_run, e_used>>
z_vars == <<z_pc, z_counter, z_tasks, z_error>>
p_vars == <<p_pc, p_has_key, p_artifacts, p_stages, p_error>>
c_vars == <<c_calls>>
x_vars == <<e_vars, z_vars, p_vars, c_vars>>
vars == <<n_vars, s_vars, u_vars, x_vars>>

(***************************************************************************)
(* Bounds of the model.                                                    *)
(***************************************************************************)
MaxApps == 3
MaxAccounts == 2
MaxMicro == 2

(***************************************************************************)
(* Texts.                                                                  *)
(***************************************************************************)
DigitChar == <<"0", "1", "2", "3", "4", "5", "6", "7", "8", "9">>

RECURSIVE Str(_)
\* str(n) / "{}".format(n) of a natural number: its decimal digits.
Str(n) == IF n < 10 THEN <<DigitChar[n + 1]>>
          ELSE Str(n \div 10) \o <<DigitChar[(n % 10) + 1]>>

Lit(s) == <<s>>

\* os.path.join(a, b)
PathJoin(a, b) == a \o <<"/">> \o b

RECURSIVE Basename(_)
\* os.path.basename(p): what follows the last separator.
Basename(p) ==
    IF p = <<>> THEN <<>>
    ELSE IF p[Len(p)] = "/" THEN <<>>
    ELSE Basename(SubSeq(p, 1, Len(p) - 1)) \o <<p[Len(p)]>>

Min(a, b) == IF a < b THEN a ELSE b

Range(f) == {f[i] : i \in DOMAIN f}

(***************************************************************************)
(* App records (class App): every attribute is a text, '' when unset.      *)
(***************************************************************************)
Unset == <<>>

App(orig_path) ==
    [orig_path |-> orig_path, parent_dir |-> Unset, app_path |-> Unset,
     zip_path |-> Unset, notary_log_path |-> Unset]

\* App.check_required_attrs: the first attribute of required_attrs that is
\* not set, as a one-element set; {} when all are set.
MissingAttrs(app, required_attrs) ==
    LET bad == {k \in DOMAIN required_attrs : app[required_attrs[k]] = Unset}
    IN  IF bad = {} THEN {}
        ELSE {required_attrs[CHOOSE k \in bad : \A l \in bad : k <= l]}

IScriptError(msg) == [type |-> "IScriptError", msg |-> msg]
NoError == [type |-> "none", msg |-> <<>>]

(***************************************************************************)
(* External commands (run_command) as tasks of the event loop.             *)
(***************************************************************************)
Settled(state) == state \in {"ok", "failed"}

\* raise_future_exceptions(futures): returns once every future has settled ...
AllSettled(states) == \A k \in DOMAIN states : Settled(states[k])

\* ... and raises the collected failures, all of them, when there are any.
Failures(states) == {k \in DOMAIN states : states[k] = "failed"}

(***************************************************************************)
(* get_bundle_id                                                           *)
(***************************************************************************)
\* the instants the clock shows during one call: the run stays within one
\* second of the clock, its microseconds advance
ClockValues == [timestamp : {1}, microsecond : 0..MaxMicro]

Later(a, b) ==
    \/ b.timestamp > a.timestamp
    \/ b.timestamp = a.timestamp /\ b.microsecond > a.microsecond

get_bundle_id(base_bundle_id, env_task_id, utcnow) ==
    base_bundle_id \o <<".">> \o env_task_id \o <<".">>
        \o (Str(utcnow.timestamp) \o Str(utcnow.microsecond))

(***************************************************************************)
(* wrap_notarization_with_sudo                                             *)
(***************************************************************************)
Mask == Lit("********")

BaseCmd(account, app, bundle_id, kc) ==
    << Lit("sudo"), Lit("-u"), account,
       Lit("xcrun"), Lit("altool"), Lit("--notarize-app"),
       Lit("-f"), app.zip_path,
       Lit("--primary-bundle-id"), bundle_id,
       Lit("-u"), kc.apple_notarization_account,
       Lit("--password") >>

LogCmd_unmasked(base_cmd, kc) == Append(base_cmd, kc.apple_notarization_password)

\* log_cmd = base_cmd + ['********']
LogCmd(base_cmd, kc) == Append(base_cmd, Mask)

\* base_cmd + [key_config['apple_notarization_password']]
ExecCmd(base_cmd, kc) == Append(base_cmd, kc.apple_notarization_password)

AppendFuture_onlyLast(futs, t) == <<t>>

\* futures.append(asyncio.ensure_future(...))
AppendFuture(futs, t) == Append(futs, t)

NextCounter_skip(c) == c + 2

\* counter += 1
NextCounter(c) == c + 1

\* the states of the tasks a list of futures refers to
StatesOf(futs) == [k \in DOMAIN futs |-> issued[futs[k]].state]

\* lines 355-356
CheckZipPaths ==
    /\ n_pc = "start"
    /\ LET missing == {i \in DOMAIN all_paths :
                          MissingAttrs(all_paths[i], <<"zip_path">>) # {}}
       IN  IF missing = {}
           THEN /\ n_pc' = "while"
                /\ n_error' = n_error
           ELSE /\ n_pc' = "raised"
                /\ n_error' = IScriptError(<<"Missing", "zip_path", "attr!">>)
    /\ UNCHANGED <<accounts, key_config, task_id, all_paths, counter, acct,
                   futures, now, issued, waves>>
    /\ UNCHANGED <<s_vars, u_vars, x_vars>>

\* line 358: the while test; lines 359-360 on entering the body, 387 on leaving
WhileTest ==
    /\ n_pc = "while"
    /\ IF counter < Len(all_paths)
       THEN /\ futures' = <<>>
            /\ acct' = 1
            /\ waves' = Min(waves + 1, MaxApps + 1)
            /\ n_pc' = "for"
       ELSE /\ n_pc' = "returned"
            /\ UNCHANGED <<futures, acct, waves>>
    /\ UNCHANGED <<accounts, key_config, task_id, all_paths, counter, now,
                   issued, n_error>>
    /\ UNCHANGED <<s_vars, u_vars, x_vars>>

\* the clock advances between two reads
ClockTick ==
    /\ n_pc = "for"
    /\ acct <= Len(accounts)
    /\ \E t \in ClockValues : Later(now, t) /\ now' = t
    /\ UNCHANGED <<accounts, key_config, task_id, all_paths, n_pc, counter,
                   acct, futures, issued, waves, n_error>>
    /\ UNCHANGED <<s_vars, u_vars, x_vars>>

\* lines 360-384: one iteration of `for account in accounts`
ForBody ==
    /\ n_pc = "for"
    /\ acct <= Len(accounts)
    /\ LET account == accounts[acct]
           i == counter + 1
           app == [all_paths[i] EXCEPT
                     !.notary_log_path =
                         PathJoin(all_paths[i].parent_dir, Lit("notary.log"))]
           bundle_id == get_bundle_id(key_config.base_bundle_id, task_id, now)
           base_cmd == BaseCmd(account, app, bundle_id, key_config)
           task == [app |-> counter, account |-> account, wave |-> waves,
                    bundle_id |-> bundle_id,
                    cmd |-> ExecCmd(base_cmd, key_config),
                    log_cmd |-> LogCmd(base_cmd, key_config),
                    log_path |-> app.notary_log_path,
                    state |-> "pending"]
       IN  /\ all_paths' = [all_paths EXCEPT ![i] = app]
           /\ issued' = Append(issued, task)
           /\ futures' = AppendFuture(futures, Len(issued) + 1)
           /\ counter' = NextCounter(counter)
           /\ IF counter' >= Len(all_paths)
              THEN n_pc' = "await" /\ acct' = acct
              ELSE n_pc' = "for" /\ acct' = acct + 1
    /\ UNCHANGED <<accounts, key_config, task_id, now, waves, n_error>>
    /\ UNCHANGED <<s_vars, u_vars, x_vars>>

\* the for loop runs out of accounts
ForExhausted ==
    /\ n_pc = "for"
    /\ acct > Len(accounts)
    /\ n_pc' = "await"
    /\ UNCHANGED <<accounts, key_config, task_id, all_paths, counter, acct,
                   futures, now, issued, waves, n_error>>
    /\ UNCHANGED <<s_vars, u_vars, x_vars>>

\* a scheduled submission command starts once the caller awaits
SubmissionStart(t) ==
    /\ n_pc = "await"
    /\ issued[t].state = "pending"
    /\ issued' = [issued EXCEPT ![t].state = "running"]
    /\ UNCHANGED <<accounts, key_config, task_id, all_paths, n_pc, counter,
                   acct, futures, now, waves, n_error>>
    /\ UNCHANGED <<s_vars, u_vars, x_vars>>

\* a running submission command exits, with status 0 or not
SubmissionSettle(t, result) ==
    /\ issued[t].state = "running"
    /\ issued' = [issued EXCEPT ![t].state = result]
    /\ UNCHANGED <<accounts, key_config, task_id, all_paths, n_pc, counter,
                   acct, futures, now, waves, n_error>>
    /\ UNCHANGED <<s_vars, u_vars, x_vars>>

\* line 385: await raise_future_exceptions(futures)
WaveJoin ==
    /\ n_pc = "await"
    /\ AllSettled(StatesOf(futures))
    /\ LET failed == Failures(StatesOf(futures))
       IN  IF failed = {}
           THEN n_pc' = "while" /\ n_error' = n_error
           ELSE /\ n_pc' = "raised"
                /\ n_error' = [type |-> "IScriptError",
                               msg |-> <<"failed">>,
                               tasks |-> {futures[k] : k \in failed}]
    /\ UNCHANGED <<accounts, key_config, task_id, all_paths, counter, acct,
                   futures, now, issued, waves>>
    /\ UNCHANGED <<s_vars, u_vars, x_vars>>

NextNotarize ==
    \/ CheckZipPaths
    \/ WhileTest
    \/ ClockTick
    \/ ForBody
    \/ ForExhausted
    \/ \E t \in DOMAIN issued : SubmissionStart(t)
    \/ \E t \in DOMAIN issued : \E r \in {"ok", "failed"} : SubmissionSettle(t, r)
    \/ WaveJoin


(***************************************************************************)
(* Initial states.                                                         *)
(***************************************************************************)
Passwords == {Lit("hunter2"), Lit("s3cret")}

TaskIds == {Lit("None"), Lit("TASKID")}

\* the k-th local notarization account
AccountName(k) == <<"notary">> \o Str(k)

\* the i-th upstream artifact of the task (get_app_paths)
Artifact(i) == PathJoin(Lit("artifacts"), Str(i) \o <<".tar.gz">>)

\* extract_all_apps: app.parent_dir = os.path.join(work_dir, str(counter))
ParentDir(i) == PathJoin(Lit("work_dir"), Str(i))

\* create_all_app_zipfiles: os.path.join(parent_dir, "{}.zip".format(basename))
ZipPath(parent_dir) == PathJoin(parent_dir, Basename(parent_dir) \o <<".zip">>)

\* A record as wrap_notarization_with_sudo receives it: extracted and signed,
\* and packaged unless `zipped` is FALSE.
SubmittableApp(i, zipped) ==
    [App(PathJoin(Lit("artifacts"), Str(i) \o <<".tar.gz">>)) EXCEPT
        !.parent_dir = ParentDir(i),
        !.app_path = PathJoin(ParentDir(i), Lit("Firefox.app")),
        !.zip_path = IF zipped THEN ZipPath(ParentDir(i)) ELSE Unset]

\* config['mac_config']['dep']
KeyConfig(apple_pw) ==
    [identity |-> Lit("Developer ID Application: Mozilla"),
     base_bundle_id |-> Lit("org.mozilla.firefox"),
     apple_notarization_account |-> Lit("apple-id"),
     apple_notarization_password |-> apple_pw,
     signing_keychain |-> Lit("signing.keychain"),
     keychain_password |-> Lit("keychain-pw"),
     notarize_type |-> "multi_account"]

\* run_command's exit status is the environment's: any command may fail ...
AnyOutcome == [any |-> TRUE, failing |-> {}]

\* ... or exactly the commands on the files of `failing` fail.
FailingOutcome(failing) == [any |-> FALSE, failing |-> failing]

ExtractIdle ==
    /\ e_pc = "idle"
    /\ e_counter = 0
    /\ e_tasks = <<>>
    /\ e_error = NoError
    /\ fs = [d \in {} |-> {}]
    /\ e_run = 1
    /\ e_used = {}

ZipIdle ==
    /\ z_pc = "idle"
    /\ z_counter = 0
    /\ z_tasks = <<>>
    /\ z_error = NoError

PipelineIdle ==
    /\ p_pc = "idle"
    /\ p_has_key = TRUE
    /\ p_artifacts = 0
    /\ p_stages = <<>>
    /\ p_error = NoError

ConcurrentIdle == c_calls = <<>>

OthersIdle == ExtractIdle /\ ZipIdle /\ PipelineIdle /\ ConcurrentIdle

\* the locals of wrap_notarization_with_sudo while it is not running
NotarizeLocalsIdle ==
    /\ accounts = <<>>
    /\ task_id = Lit("None")
    /\ n_pc = "idle"
    /\ counter = 0
    /\ acct = 1
    /\ futures = <<>>
    /\ now = [timestamp |-> 1, microsecond |-> 0]
    /\ issued = <<>>
    /\ waves = 0
    /\ n_error = NoError

NotarizeIdle ==
    /\ accounts = <<>>
    /\ key_config = KeyConfig(Lit("hunter2"))
    /\ task_id = Lit("None")
    /\ all_paths = <<>>
    /\ n_pc = "idle"
    /\ counter = 0
    /\ acct = 1
    /\ futures = <<>>
    /\ now = [timestamp |-> 1, microsecond |-> 0]
    /\ issued = <<>>
    /\ waves = 0
    /\ n_error = NoError

SignIdle ==
    /\ s_pc = "idle"
    /\ s_key_known = TRUE
    /\ s_app = App(Unset)
    /\ bundle = {}
    /\ n_app_dirs = 1
    /\ initial_files = <<>>
    /\ s_tasks = <<>>
    /\ s_futures = <<>>
    /\ semaphore = 0
    /\ s_error = NoError
    /\ s_outcomes = AnyOutcome

UnlockIdle ==
    /\ u_pc = "idle"
    /\ keychain_password = Lit("hunter2")
    /\ child = [state |-> "none", exitstatus |-> -1, signalstatus |-> -1]
    /\ prompts = 0
    /\ elapsed = 0
    /\ index = [kind |-> "none", value |-> 0]
    /\ sendline_calls = <<>>
    /\ u_error = NoError

InitNotarize ==
    /\ \E m \in 0..MaxAccounts : accounts = [k \in 1..m |-> AccountName(k)]
    /\ \E pw \in Passwords : key_config = KeyConfig(pw)
    /\ task_id \in TaskIds
    /\ \E n \in 0..MaxApps : \E unzipped \in {0} \cup (1..n) :
          all_paths = [i \in 1..n |-> SubmittableApp(i - 1, i # unzipped)]
    /\ n_pc = "start"
    /\ counter = 0
    /\ acct = 1
    /\ futures = <<>>
    /\ now = [timestamp |-> 1, microsecond |-> 0]
    /\ issued = <<>>
    /\ waves = 0
    /\ n_error = NoError
    /\ SignIdle
    /\ UnlockIdle
    /\ OthersIdle

SpecNotarize == InitNotarize /\ [][NextNotarize]_vars


(***************************************************************************)
(* Claims about wrap_notarization_with_sudo (checked under SpecNotarize).  *)
(***************************************************************************)
InFlight == {t \in DOMAIN issued : issued[t].state = "running"}

\* C1: at every moment at most len(accounts) submission commands are in
\* flight and no account has two of them in flight; a wave gives each
\* account at most one record, and no submission of a later wave exists
\* before every submission of the earlier waves has settled.
C1_InFlightWithinAccountPool ==
    /\ Cardinality(InFlight) <= Len(accounts)
    /\ \A t, u \in InFlight : t # u => issued[t].account # issued[u].account
    /\ \A t, u \in DOMAIN issued :
          (t # u /\ issued[t].wave = issued[u].wave)
              => issued[t].account # issued[u].account
    /\ \A t, u \in DOMAIN issued :
          issued[t].wave < issued[u].wave => Settled(issued[t].state)

\* C1 witness: with two accounts, a submission of the second wave is in
\* flight after a full first wave.
C1_Witness ==
    /\ Len(accounts) = 2
    /\ Cardinality({t \in DOMAIN issued : issued[t].wave = 1}) = 2
    /\ \E t \in InFlight : issued[t].wave = 2

\* ceil(n / m)
CeilDiv(n, m) == (n + m - 1) \div m

\* C2: with M >= 1 accounts, the k-th submission issued is for record k
\* (in batch order), in wave floor(k / M) and under account k mod M; when
\* the call returns (every command succeeded) each of the N records has
\* exactly one submission and ceil(N / M) waves were run.
C2_OneSubmissionPerRecordInWaves ==
    Len(accounts) >= 1 =>
        /\ \A k \in DOMAIN issued :
              /\ issued[k].app = k - 1
              /\ issued[k].wave = ((k - 1) \div Len(accounts)) + 1
              /\ issued[k].account = accounts[((k - 1) % Len(accounts)) + 1]
        /\ n_pc = "returned" =>
              /\ Len(issued) = Len(all_paths)
              /\ \A k \in DOMAIN issued : issued[k].state = "ok"
              /\ waves = CeilDiv(Len(all_paths), Len(accounts))

\* C2 witness: 3 records and accounts [A, B]: records 0 and 1 went out on A
\* and B in wave 1, record 2 on A in wave 2, and the call has returned.
C2_Witness ==
    /\ n_pc = "returned"
    /\ Len(all_paths) = 3
    /\ Len(accounts) = 2
    /\ waves = 2
    /\ [k \in DOMAIN issued |-> <<issued[k].app, issued[k].wave, issued[k].account>>]
         = << <<0, 1, accounts[1]>>, <<1, 1, accounts[2]>>, <<2, 2, accounts[1]>> >>

\* C3: any two bundle identifiers generated for submissions of one run are
\* distinct.
C3_BundleIdsPairwiseDistinct ==
    \A t, u \in DOMAIN issued :
        t # u => issued[t].bundle_id # issued[u].bundle_id

RECURSIVE JoinArgs(_)
\* the command as one text, its arguments separated by blanks
JoinArgs(cmd) ==
    IF cmd = <<>> THEN <<>>
    ELSE IF Len(cmd) = 1 THEN cmd[1]
    ELSE cmd[1] \o <<" ">> \o JoinArgs(Tail(cmd))

\* `part` occurs in `text`
Occurs(part, text) ==
    \E a \in 1..(Len(text) - Len(part) + 1) :
        SubSeq(text, a, a + Len(part) - 1) = part

\* C4: for every submission, the command handed over for logging does not
\* contain the configured password, neither as an argument nor anywhere in
\* its text; its last argument is the mask, the executed command's last
\* argument is the password, and the two agree on everything else.
C4_LogCmdRedactsPassword ==
    \A t \in DOMAIN issued :
        LET pw == key_config.apple_notarization_password
            cmd == issued[t].cmd
            log_cmd == issued[t].log_cmd
        IN  /\ \A j \in DOMAIN log_cmd : log_cmd[j] # pw
            /\ ~Occurs(pw, JoinArgs(log_cmd))
            /\ log_cmd[Len(log_cmd)] = Mask
            /\ cmd[Len(cmd)] = pw
            /\ Len(cmd) = Len(log_cmd)
            /\ SubSeq(cmd, 1, Len(cmd) - 1) = SubSeq(log_cmd, 1, Len(log_cmd) - 1)

\* C4 witness: a submission command is running with the password on it.
C4_Witness ==
    \E t \in InFlight :
        /\ Occurs(key_config.apple_notarization_password, JoinArgs(issued[t].cmd))
        /\ issued[t].log_cmd # issued[t].cmd


(***************************************************************************)
(* sign                                                                    *)
(***************************************************************************)
MaxFiles == 4

SemaphoreCapacity == 10

MacOS == <<"Contents", "/", "MacOS", "/">>

\* the glob patterns, relative to the bundle
INITIAL_FILES_TO_SIGN ==
    << MacOS \o <<"XUL">>,
       MacOS \o <<"pingsender">>,
       MacOS \o <<"*", ".dylib">>,
       MacOS \o <<"crashreporter.app", "/", "Contents", "/", "MacOS", "/",
                  "minidump-analyzer">>,
       MacOS \o <<"crashreporter.app", "/", "Contents", "/", "MacOS", "/",
                  "crashreporter">>,
       MacOS \o <<"firefox-bin">>,
       MacOS \o <<"plugin-container.app", "/", "Contents", "/", "MacOS", "/",
                  "plugin-container">>,
       MacOS \o <<"updater.app", "/", "Contents", "/", "MacOS", "/",
                  "org.mozilla.updater">>,
       MacOS \o <<"firefox">> >>

\* chunks that begin with a dot
DotChunks == {".dylib", ".hidden", ".DS_Store"}

RECURSIVE GlobMatch(_, _, _)
\* glob's matching of one path against one pattern: `*` stands for any run
\* of characters within a path component, but does not match a leading dot.
GlobMatch(pat, path, at_start) ==
    IF pat = <<>> THEN path = <<>>
    ELSE IF pat[1] = "*"
         THEN IF at_start /\ path # <<>> /\ path[1] \in DotChunks
              THEN FALSE
              ELSE \/ GlobMatch(Tail(pat), path, FALSE)
                   \/ /\ path # <<>>
                      /\ path[1] # "/"
                      /\ GlobMatch(pat, Tail(path), FALSE)
         ELSE /\ path # <<>>
              /\ path[1] = pat[1]
              /\ GlobMatch(Tail(pat), Tail(path), pat[1] = "/")

RECURSIVE SetToSeq(_)
\* the elements of a set in the (arbitrary but fixed) order of a listing
SetToSeq(S) ==
    IF S = {} THEN <<>>
    ELSE LET x == CHOOSE y \in S : TRUE
         IN  <<x>> \o SetToSeq(S \ {x})

\* glob(os.path.join(app.app_path, pattern)) over the files of the bundle
Glob(app_path, pattern, files) ==
    SetToSeq({PathJoin(app_path, f) : f \in {g \in files : GlobMatch(pattern, g, TRUE)}})

RECURSIVE InitialFiles(_, _, _)
\* lines 86-88: initial_files.extend(glob(...)) for every pattern, in order
InitialFiles(app_path, patterns, files) ==
    IF patterns = <<>> THEN <<>>
    ELSE Glob(app_path, Head(patterns), files)
             \o InitialFiles(app_path, Tail(patterns), files)

\* list_files(app.app_path): every file below the bundle, once
list_files(app_path, files) == SetToSeq({PathJoin(app_path, f) : f \in files})

SkipInitial_never(path, initials) == FALSE

\* lines 111-112: `if path in initial_files: continue`
SkipInitial(path, initials) == path \in Range(initials)

\* the per-file and the bundle-level codesign command
CodesignCmd(kc, entitlements_path, path) ==
    << Lit("codesign"), Lit("--force"), Lit("-o"), Lit("runtime"),
       Lit("--verbose"), Lit("--sign"), kc.identity, Lit("--entitlements"),
       entitlements_path, path >>

VerifyCmd(path) ==
    << Lit("codesign"), Lit("-vvv"), Lit("--deep"), Lit("--strict"), path >>

XattrCmd(path) == << Lit("xattr"), Lit("-cr"), path >>

EntitlementsPath == PathJoin(Lit("work_dir"), Lit("browser.entitlements.txt"))

Task(step, path, cmd, state) ==
    [step |-> step, path |-> path, cmd |-> cmd, state |-> state]

\* the tasks created for a list of paths, appended to the task table
RECURSIVE FileTasks(_, _)
FileTasks(step, paths) ==
    IF paths = <<>> THEN <<>>
    ELSE <<Task(step, Head(paths),
                CodesignCmd(key_config, EntitlementsPath, Head(paths)),
                "pending")>>
             \o FileTasks(step, Tail(paths))

RECURSIVE SelectSeq2(_, _)
\* the paths of a listing that are not skipped
SelectSeq2(paths, initials) ==
    IF paths = <<>> THEN <<>>
    ELSE (IF SkipInitial(Head(paths), initials) THEN <<>> ELSE <<Head(paths)>>)
             \o SelectSeq2(Tail(paths), initials)

PhaseFutures_onlyFirst(first, n) == IF n = 0 THEN <<>> ELSE <<first + 1>>

\* lines 91-105, 109-124: `futures = []`, then one futures.append per path;
\* the new tasks are first + 1 .. first + n of the task table
PhaseFutures(first, n) == [k \in 1..n |-> first + k]

SignStatesOf(futs) == [k \in DOMAIN futs |-> s_tasks[futs[k]].state]

Awaited_notAwaited(futs) == TRUE

\* `await raise_future_exceptions(futures)` / `await run_command(...)`:
\* the caller resumes when what it awaits has settled
Awaited(futs) == AllSettled(SignStatesOf(futs))

SignError(type, step, failed) ==
    [type |-> type, msg |-> <<"failed">>, step |-> step,
     files |-> {s_tasks[t].path : t \in failed}]

\* lines 79-84: key config, bundle directory, then `await run_command(xattr)`
SignBegin ==
    /\ s_pc = "start"
    /\ IF ~s_key_known
       THEN /\ s_pc' = "raised"
            /\ s_error' = [type |-> "IScriptError", msg |-> <<"Unknown key config">>,
                           step |-> "get_key_config", files |-> {}]
            /\ UNCHANGED <<s_app, s_tasks, s_futures>>
       ELSE IF n_app_dirs # 1
       THEN /\ s_pc' = "raised"
            /\ s_error' = [type |-> "UnknownAppDir", msg |-> <<"Can't find a single .app">>,
                           step |-> "get_app_dir", files |-> {}]
            /\ UNCHANGED <<s_app, s_tasks, s_futures>>
       ELSE LET app_path == PathJoin(s_app.parent_dir, Lit("Firefox.app"))
            IN  /\ s_app' = [s_app EXCEPT !.app_path = app_path]
                /\ s_tasks' = <<Task("xattr", app_path, XattrCmd(app_path), "running")>>
                /\ s_futures' = <<1>>
                /\ s_pc' = "xattr"
                /\ s_error' = s_error
    /\ UNCHANGED <<s_key_known, bundle, n_app_dirs, initial_files, semaphore>>
    /\ UNCHANGED <<n_vars, u_vars, x_vars, s_outcomes>>

\* lines 85-106: after xattr, glob the initial files and schedule their signing
SignInitialFiles ==
    /\ s_pc = "xattr"
    /\ Awaited(s_futures)
    /\ IF Failures(SignStatesOf(s_futures)) # {}
       THEN /\ s_pc' = "raised"
            /\ s_error' = SignError("IScriptError", "xattr", {1})
            /\ UNCHANGED <<initial_files, s_tasks, s_futures, semaphore>>
       ELSE LET found == InitialFiles(s_app.app_path, INITIAL_FILES_TO_SIGN, bundle)
            IN  /\ initial_files' = found
                /\ semaphore' = SemaphoreCapacity
                /\ s_tasks' = s_tasks \o FileTasks("initial", found)
                /\ s_futures' = PhaseFutures(Len(s_tasks), Len(found))
                /\ s_pc' = "initial"
                /\ s_error' = s_error
    /\ UNCHANGED <<s_key_known, s_app, bundle, n_app_dirs>>
    /\ UNCHANGED <<n_vars, u_vars, x_vars, s_outcomes>>

\* the exit statuses the environment allows for the command on `path`
Outcomes(path) ==
    IF s_outcomes.any THEN {"ok", "failed"}
    ELSE IF path \in s_outcomes.failing THEN {"failed"} ELSE {"ok"}

Gated_initialOnly(step) == step = "initial"

\* lines 95-96, 114-115: the per-file commands of both phases are handed to
\* semaphore_wrapper with the one semaphore of the call
Gated(step) == step \in {"initial", "remaining"}

\* semaphore_wrapper: the next queued per-file command takes a slot and starts
FileSignStart ==
    /\ \E t \in DOMAIN s_tasks :
          /\ s_tasks[t].state = "pending"
          /\ \A u \in 1..(t - 1) : s_tasks[u].state # "pending"
          /\ Gated(s_tasks[t].step) => semaphore > 0
          /\ semaphore' = IF Gated(s_tasks[t].step)
                          THEN semaphore - 1 ELSE semaphore
          /\ s_tasks' = [s_tasks EXCEPT ![t].state = "running"]
    /\ UNCHANGED <<s_pc, s_key_known, s_app, bundle, n_app_dirs, initial_files,
                   s_futures, s_error>>
    /\ UNCHANGED <<n_vars, u_vars, x_vars, s_outcomes>>

\* a running command of sign exits, with status 0 or not; a per-file command
\* gives its slot back
SignCommandSettle(t, result) ==
    /\ s_tasks[t].state = "running"
    /\ result \in Outcomes(s_tasks[t].path)
    /\ s_tasks' = [s_tasks EXCEPT ![t].state = result]
    /\ semaphore' = IF Gated(s_tasks[t].step)
                    THEN semaphore + 1 ELSE semaphore
    /\ UNCHANGED <<s_pc, s_key_known, s_app, bundle, n_app_dirs, initial_files,
                   s_futures, s_error>>
    /\ UNCHANGED <<n_vars, u_vars, x_vars, s_outcomes>>

\* lines 106-125: the initial files are joined; the remaining files are queued
SignRemainingFiles ==
    /\ s_pc = "initial"
    /\ Awaited(s_futures)
    /\ LET failed == {s_futures[k] : k \in Failures(SignStatesOf(s_futures))}
           rest == SelectSeq2(list_files(s_app.app_path, bundle), initial_files)
       IN  IF failed # {}
           THEN /\ s_pc' = "raised"
                /\ s_error' = SignError("IScriptError", "initial", failed)
                /\ UNCHANGED <<s_tasks, s_futures>>
           ELSE /\ s_tasks' = s_tasks \o FileTasks("remaining", rest)
                /\ s_futures' = PhaseFutures(Len(s_tasks), Len(rest))
                /\ s_pc' = "remaining"
                /\ s_error' = s_error
    /\ UNCHANGED <<s_key_known, s_app, bundle, n_app_dirs, initial_files, semaphore>>
    /\ UNCHANGED <<n_vars, u_vars, x_vars, s_outcomes>>

\* lines 125-135: the remaining files are joined; the bundle is signed
SignBundle ==
    /\ s_pc = "remaining"
    /\ Awaited(s_futures)
    /\ LET failed == {s_futures[k] : k \in Failures(SignStatesOf(s_futures))}
       IN  IF failed # {}
           THEN /\ s_pc' = "raised"
                /\ s_error' = SignError("IScriptError", "remaining", failed)
                /\ UNCHANGED <<s_tasks, s_futures>>
           ELSE /\ s_tasks' = Append(s_tasks,
                        Task("bundle", s_app.app_path,
                             CodesignCmd(key_config, EntitlementsPath, s_app.app_path),
                             "running"))
                /\ s_futures' = <<Len(s_tasks) + 1>>
                /\ s_pc' = "bundle"
                /\ s_error' = s_error
    /\ UNCHANGED <<s_key_known, s_app, bundle, n_app_dirs, initial_files, semaphore>>
    /\ UNCHANGED <<n_vars, u_vars, x_vars, s_outcomes>>

\* lines 128-143: the bundle signature has settled; the bundle is verified
SignVerify ==
    /\ s_pc = "bundle"
    /\ Awaited(s_futures)
    /\ LET failed == {s_futures[k] : k \in Failures(SignStatesOf(s_futures))}
       IN  IF failed # {}
           THEN /\ s_pc' = "raised"
                /\ s_error' = SignError("IScriptError", "bundle", failed)
                /\ UNCHANGED <<s_tasks, s_futures>>
           ELSE /\ s_tasks' = Append(s_tasks,
                        Task("verify", s_app.app_path, VerifyCmd(s_app.app_path),
                             "running"))
                /\ s_futures' = <<Len(s_tasks) + 1>>
                /\ s_pc' = "verify"
                /\ s_error' = s_error
    /\ UNCHANGED <<s_key_known, s_app, bundle, n_app_dirs, initial_files, semaphore>>
    /\ UNCHANGED <<n_vars, u_vars, x_vars, s_outcomes>>

\* line 143: the verification has settled; sign returns or raises
SignReturn ==
    /\ s_pc = "verify"
    /\ Awaited(s_futures)
    /\ LET failed == {s_futures[k] : k \in Failures(SignStatesOf(s_futures))}
       IN  IF failed # {}
           THEN /\ s_pc' = "raised"
                /\ s_error' = SignError("IScriptError", "verify", failed)
           ELSE /\ s_pc' = "done"
                /\ s_error' = s_error
    /\ UNCHANGED <<s_key_known, s_app, bundle, n_app_dirs, initial_files,
                   s_tasks, s_futures, semaphore>>
    /\ UNCHANGED <<n_vars, u_vars, x_vars, s_outcomes>>

NextSign ==
    \/ SignBegin
    \/ SignInitialFiles
    \/ FileSignStart
    \/ \E t \in DOMAIN s_tasks : \E r \in {"ok", "failed"} : SignCommandSettle(t, r)
    \/ SignRemainingFiles
    \/ SignBundle
    \/ SignVerify
    \/ SignReturn

\* files a bundle may hold, relative to the bundle
FileUniverse ==
    { MacOS \o <<"XUL">>,
      MacOS \o <<"libnss3", ".dylib">>,
      MacOS \o <<".hidden", ".dylib">>,
      MacOS \o <<"firefox">>,
      MacOS \o <<"updater.app", "/", "Contents", "/", "MacOS", "/",
                 "org.mozilla.updater">>,
      <<"Contents", "/", "Resources", "/", "libres", ".dylib">>,
      <<"Contents", "/", "Info.plist">> }

InitSign ==
    /\ NotarizeIdle
    /\ UnlockIdle
    /\ s_pc = "start"
    /\ s_key_known \in BOOLEAN
    /\ s_app = [App(PathJoin(Lit("artifacts"), Lit("0.tar.gz"))) EXCEPT
                   !.parent_dir = ParentDir(0)]
    /\ bundle \in {b \in SUBSET FileUniverse : Cardinality(b) <= MaxFiles}
    /\ n_app_dirs \in 0..2
    /\ initial_files = <<>>
    /\ s_tasks = <<>>
    /\ s_futures = <<>>
    /\ semaphore = 0
    /\ s_error = NoError
    /\ s_outcomes = AnyOutcome
    /\ OthersIdle

SpecSign == InitSign /\ [][NextSign]_vars

\* Bundles with more files than the semaphore has slots.
MaxLargeFiles == 11

\* a library of Contents/MacOS: it matches the pattern Contents/MacOS/*.dylib
LibFile(k) == MacOS \o <<"lib">> \o Str(k) \o <<".dylib">>

\* a resource: it matches no pattern
ResFile(k) == <<"Contents", "/", "Resources", "/", "res">> \o Str(k)

LargeBundles ==
    { {LibFile(k) : k \in 1..MaxLargeFiles},
      {ResFile(k) : k \in 1..MaxLargeFiles},
      {LibFile(k) : k \in 1..MaxLargeFiles} \cup {ResFile(1)} }

\* sign over a large bundle; the commands succeed, or the command on one
\* file of the bundle fails
InitSignLarge ==
    /\ NotarizeIdle
    /\ UnlockIdle
    /\ s_pc = "start"
    /\ s_key_known = TRUE
    /\ s_app = [App(Artifact(0)) EXCEPT !.parent_dir = ParentDir(0)]
    /\ bundle \in LargeBundles
    /\ n_app_dirs = 1
    /\ initial_files = <<>>
    /\ s_tasks = <<>>
    /\ s_futures = <<>>
    /\ semaphore = 0
    /\ s_error = NoError
    /\ \E failing \in {{}, {LibFile(2)}, {ResFile(1)}} :
          s_outcomes = FailingOutcome(
              {PathJoin(PathJoin(ParentDir(0), Lit("Firefox.app")), f) : f \in failing})
    /\ OthersIdle

SpecSignLarge == InitSignLarge /\ [][NextSign]_vars


(***************************************************************************)
(* Claims about sign (checked under SpecSign).                             *)
(***************************************************************************)
StepRank(step) ==
    CASE step = "xattr" -> 0
      [] step = "initial" -> 1
      [] step = "remaining" -> 2
      [] step = "bundle" -> 3
      [] step = "verify" -> 4

FileSignTasks == {t \in DOMAIN s_tasks : s_tasks[t].step \in {"initial", "remaining"}}

\* C5: a command of a later step of sign (initial files, remaining files,
\* bundle signature, verification) exists only when every command of every
\* earlier step has settled successfully: the steps do not overlap, and
\* after a failure no later step is started.
C5_StepsStrictlyOrdered ==
    \A t, u \in DOMAIN s_tasks :
        StepRank(s_tasks[t].step) < StepRank(s_tasks[u].step)
            => s_tasks[t].state = "ok"

\* C5 witness: the verification runs after initial files, remaining files
\* and the bundle were signed.
C5_Witness ==
    /\ \E t \in DOMAIN s_tasks : s_tasks[t].step = "verify" /\ s_tasks[t].state = "running"
    /\ Cardinality({t \in DOMAIN s_tasks : s_tasks[t].step = "initial"}) >= 2
    /\ Cardinality({t \in DOMAIN s_tasks : s_tasks[t].step = "remaining"}) >= 2

MatchesInitialPattern(rel) ==
    \E k \in DOMAIN INITIAL_FILES_TO_SIGN :
        GlobMatch(INITIAL_FILES_TO_SIGN[k], rel, TRUE)

\* C6: no two per-file signing commands of one call of sign are for the same
\* path (none twice in the initial phase, none in both phases); the initial
\* phase signs files matching the INITIAL_FILES_TO_SIGN patterns and the
\* remaining phase the other files; once the remaining phase is queued every
\* file of the bundle has exactly one signing command, and when sign is done
\* every file was signed exactly once.
C6_EachFileSignedInOnePhase ==
    /\ \A t, u \in FileSignTasks : t # u => s_tasks[t].path # s_tasks[u].path
    /\ \A t \in FileSignTasks :
          \E f \in bundle :
              /\ s_tasks[t].path = PathJoin(s_app.app_path, f)
              /\ (s_tasks[t].step = "initial") <=> MatchesInitialPattern(f)
    /\ s_pc \in {"remaining", "bundle", "verify", "done"} =>
          \A f \in bundle :
              Cardinality({t \in FileSignTasks :
                              s_tasks[t].path = PathJoin(s_app.app_path, f)}) = 1
    /\ s_pc = "done" => \A t \in FileSignTasks : s_tasks[t].state = "ok"

\* C6 witness: sign is done for a bundle with files of both phases, among
\* them a library matched by the *.dylib pattern.
C6_Witness ==
    /\ s_pc = "done"
    /\ \E t \in FileSignTasks :
          /\ s_tasks[t].step = "initial"
          /\ s_tasks[t].path = PathJoin(s_app.app_path, MacOS \o <<"libnss3", ".dylib">>)
    /\ Cardinality({t \in FileSignTasks : s_tasks[t].step = "initial"}) = 2
    /\ Cardinality({t \in FileSignTasks : s_tasks[t].step = "remaining"}) = 2

\* C7: when sign raises out of a per-file phase, every signing command of
\* that phase has settled (none is in flight or queued) and the error names
\* exactly the files whose command failed, all of them.
C7_PhaseErrorNamesEveryFailure ==
    (s_pc = "raised" /\ s_error.step \in {"initial", "remaining"}) =>
        LET phase == {t \in DOMAIN s_tasks : s_tasks[t].step = s_error.step}
        IN  /\ \A t \in phase : Settled(s_tasks[t].state)
            /\ s_error.files = {s_tasks[t].path : t \in {u \in phase : s_tasks[u].state = "failed"}}
            /\ s_error.files # {}

\* C7 witness: two signing commands of the remaining-files phase failed,
\* a third succeeded, and sign has raised.
C7_Witness ==
    /\ s_pc = "raised"
    /\ s_error.step = "remaining"
    /\ Cardinality(s_error.files) = 2
    /\ \E t \in DOMAIN s_tasks : s_tasks[t].step = "remaining" /\ s_tasks[t].state = "ok"


(***************************************************************************)
(* unlock_keychain                                                         *)
(*                                                                         *)
(* The child process (`security unlock-keychain`) is the environment: it   *)
(* may print the password prompt, it may exit (end-of-output), and time    *)
(* passes.  `elapsed` counts in units of pexpect's timeout.                *)
(***************************************************************************)
MaxPrompts == 2
MaxElapsed == 2
MaxSends == 2

\* Python's None for child.exitstatus / child.signalstatus
None == -1

SIGHUP == 1

\* child.expect([pexpect.EOF, prompt], async_=True): with async_ it returns
\* an awaitable at once, without reading the child's output; the index (0
\* for EOF, 1 for the prompt) is what awaiting it would give.
Expect(async_, eof_seen) ==
    IF async_ THEN [kind |-> "coroutine", value |-> 0]
    ELSE [kind |-> "int", value |-> IF eof_seen THEN 0 ELSE 1]

\* line 162: `index == 0`
IndexIsEOF(ix) == ix.kind = "int" /\ ix.value = 0

\* line 164: the argument of child.sendline
SendlineArg(password) == Lit("keychain_password")

\* lines 165-166: the only exception the try block handles
Handled(exc) ==
    IF exc = "TIMEOUT"
    THEN [type |-> "IScriptError", msg |-> <<"Timeout trying to unlock the keychain">>]
    ELSE [type |-> exc, msg |-> <<>>]

\* line 167: child.close() reaps the child, hanging it up when still alive
Closed(c) ==
    IF c.state = "exited" THEN c
    ELSE [state |-> "exited", exitstatus |-> None, signalstatus |-> SIGHUP]

\* line 168
UnlockFailed(c) == c.exitstatus # 0 \/ c.signalstatus # None

\* line 158: pexpect.spawn
UnlockSpawn ==
    /\ u_pc = "start"
    /\ child' = [state |-> "running", exitstatus |-> None, signalstatus |-> None]
    /\ u_pc' = "expect"
    /\ UNCHANGED <<keychain_password, prompts, elapsed, index, sendline_calls, u_error>>
    /\ UNCHANGED <<n_vars, s_vars, x_vars>>

\* the child prints the password prompt
ChildPrompts ==
    /\ child.state = "running"
    /\ prompts < MaxPrompts
    /\ prompts' = prompts + 1
    /\ UNCHANGED <<u_pc, keychain_password, child, elapsed, index, sendline_calls, u_error>>
    /\ UNCHANGED <<n_vars, s_vars, x_vars>>

\* the child exits or is killed: its output reaches end-of-output
ChildExits(exitstatus, signalstatus) ==
    /\ child.state = "running"
    /\ child' = [state |-> "exited", exitstatus |-> exitstatus,
                 signalstatus |-> signalstatus]
    /\ UNCHANGED <<u_pc, keychain_password, prompts, elapsed, index, sendline_calls, u_error>>
    /\ UNCHANGED <<n_vars, s_vars, x_vars>>

\* time passes
TimePasses ==
    /\ u_pc \notin {"idle", "start"}
    /\ elapsed < MaxElapsed
    /\ elapsed' = elapsed + 1
    /\ UNCHANGED <<u_pc, keychain_password, child, prompts, index, sendline_calls, u_error>>
    /\ UNCHANGED <<n_vars, s_vars, x_vars>>

\* line 161: index = child.expect([...], async_=True), not awaited
UnlockExpect ==
    /\ u_pc = "expect"
    /\ index' = Expect(TRUE, child.state = "exited")
    /\ u_pc' = "test"
    /\ UNCHANGED <<keychain_password, child, prompts, elapsed, sendline_calls, u_error>>
    /\ UNCHANGED <<n_vars, s_vars, x_vars>>

\* lines 162-173: the test of index; then either the break, close() and the
\* exit status check, or sendline, which returns or raises `exc`
UnlockTestAndSend(exc) ==
    /\ u_pc = "test"
    /\ IF IndexIsEOF(index)
       THEN /\ child' = Closed(child)
            /\ IF UnlockFailed(child')
               THEN /\ u_pc' = "raised"
                    /\ u_error' = [type |-> "IScriptError", msg |-> <<"Failed unlocking">>]
               ELSE /\ u_pc' = "done"
                    /\ u_error' = u_error
            /\ UNCHANGED sendline_calls
       ELSE /\ sendline_calls' =
                   IF Len(sendline_calls) < MaxSends
                   THEN Append(sendline_calls, SendlineArg(keychain_password))
                   ELSE sendline_calls
            /\ IF exc = "none"
               THEN /\ u_pc' = "expect"
                    /\ u_error' = u_error
               ELSE /\ u_pc' = "raised"
                    /\ u_error' = Handled(exc)
            /\ UNCHANGED child
    /\ UNCHANGED <<keychain_password, prompts, elapsed, index>>
    /\ UNCHANGED <<n_vars, s_vars, x_vars>>

\* what child.sendline may raise (none: it returns)
SendlineOutcomes == {"none", "TypeError", "OSError"}

UnlockStep ==
    \/ UnlockSpawn
    \/ UnlockExpect
    \/ \E exc \in SendlineOutcomes : UnlockTestAndSend(exc)

NextUnlock ==
    \/ UnlockSpawn
    \/ ChildPrompts
    \/ \E st \in {0, 1} : ChildExits(st, None)
    \/ ChildExits(None, SIGHUP)
    \/ TimePasses
    \/ UnlockExpect
    \/ \E exc \in SendlineOutcomes : UnlockTestAndSend(exc)

InitUnlock ==
    /\ NotarizeIdle
    /\ SignIdle
    /\ u_pc = "start"
    /\ keychain_password \in Passwords
    /\ child = [state |-> "none", exitstatus |-> None, signalstatus |-> None]
    /\ prompts = 0
    /\ elapsed = 0
    /\ index = [kind |-> "none", value |-> 0]
    /\ sendline_calls = <<>>
    /\ u_error = NoError
    /\ OthersIdle

SpecUnlock == InitUnlock /\ [][NextUnlock]_vars

\* unlock_keychain's own steps are taken whenever they can be: a running
\* coroutine goes on to its next statement
FairSpecUnlock == SpecUnlock /\ WF_vars(UnlockStep)

(***************************************************************************)
(* Claims about unlock_keychain.                                           *)
(***************************************************************************)
UnlockFinished == u_pc \in {"done", "raised"}

EndOfOutput == child.state = "exited"

TimedOut == elapsed >= 1

IsTimeoutError(e) ==
    e.type = "IScriptError" /\ e.msg = <<"Timeout trying to unlock the keychain">>

IsUnlockFailedError(e) ==
    e.type = "IScriptError" /\ e.msg = <<"Failed unlocking">>

\* C8: unlock_keychain has three outcomes: as long as no prompt was printed
\* it sends nothing; it succeeds only after end-of-output of a child that
\* exited with status 0 and no signal; and it fails either with the
\* unlock-failed error (end-of-output, status non-zero or a signal) or with
\* the timeout error (timeout elapsed), which differ.
C8_ThreeOutcomes ==
    /\ prompts = 0 => sendline_calls = <<>>
    /\ u_pc = "done" =>
          EndOfOutput /\ child.exitstatus = 0 /\ child.signalstatus = None
    /\ u_pc = "raised" =>
          \/ IsUnlockFailedError(u_error) /\ EndOfOutput /\ UnlockFailed(child)
          \/ IsTimeoutError(u_error) /\ TimedOut /\ ~IsUnlockFailedError(u_error)

\* C9: whatever unlock_keychain sends to the child is the keychain password
\* it was called with.
C9_SendsConfiguredPassword ==
    \A k \in DOMAIN sendline_calls : sendline_calls[k] = keychain_password

\* C10: once end-of-output is seen or the timeout has elapsed, unlock_keychain
\* reaches a final outcome.
C10_UnlockTerminates == (EndOfOutput \/ TimedOut) ~> UnlockFinished

\* C11: when unlock_keychain has ended with an error after the timeout
\* elapsed, the child process has been terminated: none is left running.
C11_NoChildLeftAfterTimeout ==
    (u_pc = "raised" /\ TimedOut) => child.state # "running"


(***************************************************************************)
(* extract_all_apps                                                        *)
(*                                                                         *)
(* The worker runs one task after the other in the same work_dir: NextRun  *)
(* is the next call of extract_all_apps, by a later run.                   *)
(***************************************************************************)
MaxRuns == 2

\* the work directories a batch of at most MaxApps records can be given
DirUniverse == {ParentDir(i) : i \in 0..(MaxApps - 1)}

AbsentDir == [exists |-> FALSE, holds |-> {}]

\* rm(path): the directory and all it holds are gone
Rm(files, dir) == [files EXCEPT ![dir] = AbsentDir]

\* makedirs(path): the directory exists; what it holds stays
Makedirs(files, dir) == [files EXCEPT ![dir].exists = TRUE]

\* extract_tarball(orig_path, parent_dir) of run `run` writes into the directory
Extracted(files, dir, run) ==
    [files EXCEPT ![dir] = [exists |-> TRUE, holds |-> @.holds \cup {run}]]

PrepareDir_noRm(files, dir) == Makedirs(files, dir)

\* lines 259-260: rm(app.parent_dir), then makedirs(app.parent_dir)
PrepareDir(files, dir) == Makedirs(Rm(files, dir), dir)

\* lines 256-263: one iteration of `for counter, app in enumerate(all_paths)`
ExtractLoopBody ==
    /\ e_pc = "loop"
    /\ e_counter < Len(all_paths)
    /\ LET i == e_counter + 1
           dir == ParentDir(e_counter)
       IN  IF MissingAttrs(all_paths[i], <<"orig_path">>) # {}
           THEN /\ e_pc' = "raised"
                /\ e_error' = IScriptError(<<"Missing", "orig_path", "attr!">>)
                /\ UNCHANGED <<all_paths, fs, e_tasks, e_counter>>
           ELSE /\ all_paths' = [all_paths EXCEPT ![i].parent_dir = dir]
                /\ fs' = PrepareDir(fs, dir)
                /\ e_tasks' = Append(e_tasks,
                                [orig_path |-> all_paths[i].orig_path,
                                 dir |-> dir, state |-> "pending"])
                /\ e_counter' = e_counter + 1
                /\ UNCHANGED <<e_pc, e_error>>
    /\ UNCHANGED <<e_run, e_used>>
    /\ UNCHANGED <<accounts, key_config, task_id, n_pc, counter, acct, futures,
                   now, issued, waves, n_error>>
    /\ UNCHANGED <<s_vars, u_vars, z_vars, p_vars, c_vars>>

\* line 264: the loop is over; the function awaits its futures
ExtractAwait ==
    /\ e_pc = "loop"
    /\ e_counter = Len(all_paths)
    /\ e_pc' = "await"
    /\ UNCHANGED <<e_counter, e_tasks, e_error, fs, e_run, e_used>>
    /\ UNCHANGED <<n_vars, s_vars, u_vars, z_vars, p_vars, c_vars>>

\* a scheduled extraction starts once the caller awaits
ExtractStart(t) ==
    /\ e_pc = "await"
    /\ e_tasks[t].state = "pending"
    /\ e_tasks' = [e_tasks EXCEPT ![t].state = "running"]
    /\ UNCHANGED <<e_pc, e_counter, e_error, fs, e_run, e_used>>
    /\ UNCHANGED <<n_vars, s_vars, u_vars, z_vars, p_vars, c_vars>>

\* a running extraction exits, with status 0 or not, having written into
\* its directory
ExtractSettle(t, result) ==
    /\ e_tasks[t].state = "running"
    /\ e_tasks' = [e_tasks EXCEPT ![t].state = result]
    /\ fs' = Extracted(fs, e_tasks[t].dir, e_run)
    /\ UNCHANGED <<e_pc, e_counter, e_error, e_run, e_used>>
    /\ UNCHANGED <<n_vars, s_vars, u_vars, z_vars, p_vars, c_vars>>

ExtractStatesOf(tasks) == [k \in DOMAIN tasks |-> tasks[k].state]

\* line 264: await raise_future_exceptions(futures)
ExtractJoin ==
    /\ e_pc = "await"
    /\ AllSettled(ExtractStatesOf(e_tasks))
    /\ LET failed == Failures(ExtractStatesOf(e_tasks))
       IN  IF failed = {}
           THEN e_pc' = "returned" /\ e_error' = e_error
           ELSE /\ e_pc' = "raised"
                /\ e_error' = [type |-> "IScriptError", msg |-> <<"failed">>,
                               tasks |-> failed]
    /\ UNCHANGED <<e_counter, e_tasks, fs, e_run, e_used>>
    /\ UNCHANGED <<n_vars, s_vars, u_vars, z_vars, p_vars, c_vars>>

\* a batch as get_app_paths builds it: orig_path set, all else unset; the
\* record at position `bad` (if any) lacks its orig_path
Batch(n, bad) ==
    [i \in 1..n |-> App(IF i = bad THEN Unset ELSE Artifact(i - 1))]

\* the worker's next run calls extract_all_apps with the same work_dir
NextRun ==
    /\ e_pc \in {"returned", "raised"}
    /\ e_run < MaxRuns
    /\ e_run' = e_run + 1
    /\ e_used' = e_used \cup {e_tasks[t].dir : t \in DOMAIN e_tasks}
    /\ \E n \in 0..MaxApps : \E bad \in {0} \cup (1..n) : all_paths' = Batch(n, bad)
    /\ e_pc' = "loop"
    /\ e_counter' = 0
    /\ e_tasks' = <<>>
    /\ e_error' = NoError
    /\ UNCHANGED fs
    /\ UNCHANGED <<accounts, key_config, task_id, n_pc, counter, acct, futures,
                   now, issued, waves, n_error>>
    /\ UNCHANGED <<s_vars, u_vars, z_vars, p_vars, c_vars>>

NextExtract ==
    \/ ExtractLoopBody
    \/ ExtractAwait
    \/ \E t \in DOMAIN e_tasks : ExtractStart(t)
    \/ \E t \in DOMAIN e_tasks : \E r \in {"ok", "failed"} : ExtractSettle(t, r)
    \/ ExtractJoin
    \/ NextRun

InitExtract ==
    /\ \E n \in 0..MaxApps : \E bad \in {0} \cup (1..n) : all_paths = Batch(n, bad)
    /\ key_config = KeyConfig(Lit("hunter2"))
    /\ NotarizeLocalsIdle
    /\ SignIdle
    /\ UnlockIdle
    /\ e_pc = "loop"
    /\ e_counter = 0
    /\ e_tasks = <<>>
    /\ e_error = NoError
    /\ fs = [d \in DirUniverse |-> AbsentDir]
    /\ e_run = 1
    /\ e_used = {}
    /\ ZipIdle
    /\ PipelineIdle
    /\ ConcurrentIdle

SpecExtract == InitExtract /\ [][NextExtract]_vars


(***************************************************************************)
(* Claims about extract_all_apps (checked under SpecExtract).              *)
(***************************************************************************)
\* the records the loop has gone through
Assigned == 1..e_counter

\* C15 as stated: the work directories of a batch are work_dir joined with
\* the position, pairwise distinct, each is empty before the extraction into
\* it starts, and no work directory was used by an earlier run.
C15_WorkDirsNotReused ==
    /\ \A i \in Assigned : all_paths[i].parent_dir = PathJoin(Lit("work_dir"), Str(i - 1))
    /\ \A i, j \in Assigned : i # j => all_paths[i].parent_dir # all_paths[j].parent_dir
    /\ \A t \in DOMAIN e_tasks :
          e_tasks[t].state = "pending" =>
              fs[e_tasks[t].dir].exists /\ fs[e_tasks[t].dir].holds = {}
    /\ \A t \in DOMAIN e_tasks : e_tasks[t].dir \notin e_used

\* C15, amended: the work directories of a batch are work_dir joined with the
\* position, pairwise distinct, and each is removed and recreated empty before
\* the extraction into it starts; a later run uses the same directories again,
\* and then they hold nothing of an earlier run.
C15_WorkDirsDistinctAndWiped ==
    /\ \A i \in Assigned : all_paths[i].parent_dir = PathJoin(Lit("work_dir"), Str(i - 1))
    /\ \A i, j \in Assigned : i # j => all_paths[i].parent_dir # all_paths[j].parent_dir
    /\ \A t \in DOMAIN e_tasks :
          /\ e_tasks[t].dir = all_paths[t].parent_dir
          /\ e_tasks[t].state = "pending" =>
                fs[e_tasks[t].dir].exists /\ fs[e_tasks[t].dir].holds = {}
          /\ fs[e_tasks[t].dir].holds \subseteq {e_run}

\* C15 witness: in a later run two extractions are under way in directories
\* an earlier run extracted into.
C15_Witness ==
    /\ e_run > 1
    /\ \E t, u \in DOMAIN e_tasks :
          /\ t # u
          /\ e_tasks[t].state = "running" /\ e_tasks[u].state = "running"
          /\ e_tasks[t].dir \in e_used /\ e_tasks[u].dir \in e_used


(***************************************************************************)
(* create_all_app_zipfiles                                                 *)
(***************************************************************************)
\* line 279
required_attrs == <<"parent_dir", "zip_path", "app_path">>

\* the command create_zipfile runs (the comment at line 286)
DittoCmd(app) ==
    << Lit("ditto"), Lit("-c"), Lit("-k"), Lit("--norsrc"), Lit("--keepParent"),
       app.app_path, app.zip_path >>

\* lines 281-291: one iteration of `for app in all_paths`
ZipLoopBody ==
    /\ z_pc = "loop"
    /\ z_counter < Len(all_paths)
    /\ LET i == z_counter + 1
           missing == MissingAttrs(all_paths[i], required_attrs)
           app == [all_paths[i] EXCEPT !.zip_path = ZipPath(all_paths[i].parent_dir)]
       IN  IF missing # {}
           THEN /\ z_pc' = "raised"
                /\ z_error' = IScriptError(<<"Missing", CHOOSE a \in missing : TRUE,
                                             "attr!">>)
                /\ UNCHANGED <<all_paths, z_tasks, z_counter>>
           ELSE /\ all_paths' = [all_paths EXCEPT ![i] = app]
                /\ z_tasks' = Append(z_tasks,
                                [app |-> i, cmd |-> DittoCmd(app),
                                 state |-> "pending"])
                /\ z_counter' = z_counter + 1
                /\ UNCHANGED <<z_pc, z_error>>
    /\ UNCHANGED <<accounts, key_config, task_id, n_pc, counter, acct, futures,
                   now, issued, waves, n_error>>
    /\ UNCHANGED <<s_vars, u_vars, e_vars, p_vars, c_vars>>

\* line 292: the loop is over; the function awaits its futures
ZipAwait ==
    /\ z_pc = "loop"
    /\ z_counter = Len(all_paths)
    /\ z_pc' = "await"
    /\ UNCHANGED <<z_counter, z_tasks, z_error>>
    /\ UNCHANGED <<n_vars, s_vars, u_vars, e_vars, p_vars, c_vars>>

\* a scheduled archive creation starts once the caller awaits
ZipStart(t) ==
    /\ z_pc = "await"
    /\ z_tasks[t].state = "pending"
    /\ z_tasks' = [z_tasks EXCEPT ![t].state = "running"]
    /\ UNCHANGED <<z_pc, z_counter, z_error>>
    /\ UNCHANGED <<n_vars, s_vars, u_vars, e_vars, p_vars, c_vars>>

\* a running archive creation exits, with status 0 or not
ZipSettle(t, result) ==
    /\ z_tasks[t].state = "running"
    /\ z_tasks' = [z_tasks EXCEPT ![t].state = result]
    /\ UNCHANGED <<z_pc, z_counter, z_error>>
    /\ UNCHANGED <<n_vars, s_vars, u_vars, e_vars, p_vars, c_vars>>

\* line 292: await raise_future_exceptions(futures)
ZipJoin ==
    /\ z_pc = "await"
    /\ AllSettled(ExtractStatesOf(z_tasks))
    /\ LET failed == Failures(ExtractStatesOf(z_tasks))
       IN  IF failed = {}
           THEN z_pc' = "returned" /\ z_error' = z_error
           ELSE /\ z_pc' = "raised"
                /\ z_error' = [type |-> "IScriptError", msg |-> <<"failed">>,
                               tasks |-> failed]
    /\ UNCHANGED <<z_counter, z_tasks>>
    /\ UNCHANGED <<n_vars, s_vars, u_vars, e_vars, p_vars, c_vars>>

NextZip ==
    \/ ZipLoopBody
    \/ ZipAwait
    \/ \E t \in DOMAIN z_tasks : ZipStart(t)
    \/ \E t \in DOMAIN z_tasks : \E r \in {"ok", "failed"} : ZipSettle(t, r)
    \/ ZipJoin

\* A record after signing: parent_dir and app_path are set.  zip_path is
\* unset, unless the caller has set it beforehand (`preset`).
SignedApp(i, preset) ==
    [App(Artifact(i)) EXCEPT
        !.parent_dir = ParentDir(i),
        !.app_path = PathJoin(ParentDir(i), Lit("Firefox.app")),
        !.zip_path = IF preset THEN Lit("preset.zip") ELSE Unset]

InitZip ==
    /\ \E n \in 0..MaxApps : \E preset \in BOOLEAN :
          all_paths = [i \in 1..n |-> SignedApp(i - 1, preset)]
    /\ key_config = KeyConfig(Lit("hunter2"))
    /\ NotarizeLocalsIdle
    /\ SignIdle
    /\ UnlockIdle
    /\ ExtractIdle
    /\ z_pc = "loop"
    /\ z_counter = 0
    /\ z_tasks = <<>>
    /\ z_error = NoError
    /\ PipelineIdle
    /\ ConcurrentIdle

SpecZip == InitZip /\ [][NextZip]_vars


(***************************************************************************)
(* Claims about create_all_app_zipfiles (checked under SpecZip).           *)
(***************************************************************************)
\* C16: once create_all_app_zipfiles is past its loop (it awaits the archive
\* creations, has returned or has raised), every record of the batch has its
\* zip_path set to <parent_dir>/<basename of parent_dir>.zip and exactly one
\* archive creation was started for it, so that the submitter's requirement
\* (zip_path is set) is met.
C16_ZipPathSetByPackager ==
    z_pc \in {"await", "returned", "raised"} =>
        \A i \in DOMAIN all_paths :
            /\ all_paths[i].zip_path =
                  all_paths[i].parent_dir \o <<"/">>
                      \o Basename(all_paths[i].parent_dir) \o <<".zip">>
            /\ Cardinality({t \in DOMAIN z_tasks : z_tasks[t].app = i}) = 1
            /\ MissingAttrs(all_paths[i], <<"zip_path">>) = {}


(***************************************************************************)
(* Termination of wrap_notarization_with_sudo.                             *)
(***************************************************************************)
\* the function's own steps
NotarizeStep ==
    \/ CheckZipPaths
    \/ WhileTest
    \/ ForBody
    \/ ForExhausted
    \/ WaveJoin

\* The running coroutine goes on to its next statement, and every submission
\* command that was scheduled starts and settles.
FairSpecNotarize ==
    /\ SpecNotarize
    /\ WF_vars(NotarizeStep)
    /\ WF_vars(\E t \in DOMAIN issued : SubmissionStart(t))
    /\ WF_vars(\E t \in DOMAIN issued : \E r \in {"ok", "failed"} : SubmissionSettle(t, r))

\* C20: provided each submission command settles, wrap_notarization_with_sudo
\* eventually returns or raises, for every batch and every account pool, the
\* empty pool included.
C20_NotarizeTerminates == <>(n_pc \in {"returned", "raised"})


(***************************************************************************)
(* The admission gate of sign (checked under SpecSignLarge).               *)
(***************************************************************************)
\* the per-file signing commands in flight
FileSignsInFlight ==
    {t \in DOMAIN s_tasks :
        s_tasks[t].step \in {"initial", "remaining"} /\ s_tasks[t].state = "running"}

\* sign has created its semaphore (line 92)
GateCreated ==
    /\ s_pc \notin {"idle", "start", "xattr"}
    /\ s_pc = "raised" => s_error.step \notin {"get_key_config", "get_app_dir", "xattr"}

\* C18: within one call of sign at most 10 per-file signing commands are in
\* flight at any moment, in both phases and whatever the number of files;
\* every command in flight holds one of the 10 slots, and a command that has
\* settled, successfully or not, holds none.
C18_AtMostTenInFlight ==
    /\ Cardinality(FileSignsInFlight) <= 10
    /\ semaphore >= 0
    /\ GateCreated => semaphore + Cardinality(FileSignsInFlight) = 10

\* C18 witness: in the remaining-files phase of a bundle of more than 10
\* files, one signing command has failed and 10 others are in flight.
C18_Witness ==
    /\ s_pc = "remaining"
    /\ Cardinality(bundle) > 10
    /\ Cardinality(FileSignsInFlight) = 10
    /\ \E t \in DOMAIN s_tasks :
          s_tasks[t].step = "remaining" /\ s_tasks[t].state = "failed"


(***************************************************************************)
(* Several calls of sign in one event loop, one per record, as             *)
(* sign_all_apps is written to schedule them (lines 309-314).              *)
(*                                                                         *)
(* Of each call only the per-file signing commands are kept, and of these  *)
(* only their numbers: how many are queued, how many are in flight, and    *)
(* whether one has failed.                                                 *)
(***************************************************************************)
MaxCalls == 2
MaxCallFiles == 6

\* a call of sign that has not started, for a bundle with `initial` files
\* matching INITIAL_FILES_TO_SIGN and `remaining` other files
SignCall(initial, remaining) ==
    [pc |-> "start", semaphore |-> 0, initial |-> initial,
     remaining |-> remaining, queued |-> 0, running |-> 0, failed |-> FALSE]

\* lines 91-105: the call creates its own semaphore and schedules the
\* signing of its initial files
ConcSignInitial(c) ==
    /\ c_calls[c].pc = "start"
    /\ c_calls' = [c_calls EXCEPT ![c].pc = "initial",
                                  ![c].semaphore = SemaphoreCapacity,
                                  ![c].queued = c_calls[c].initial]
    /\ UNCHANGED <<n_vars, s_vars, u_vars, e_vars, z_vars, p_vars>>

\* semaphore_wrapper: a queued command of the call takes a slot of the
\* call's semaphore and starts
ConcFileStart(c) ==
    /\ c_calls[c].queued > 0
    /\ c_calls[c].semaphore > 0
    /\ c_calls' = [c_calls EXCEPT ![c].queued = @ - 1,
                                  ![c].running = @ + 1,
                                  ![c].semaphore = @ - 1]
    /\ UNCHANGED <<n_vars, s_vars, u_vars, e_vars, z_vars, p_vars>>

\* a running command of the call exits and gives its slot back
ConcFileSettle(c, result) ==
    /\ c_calls[c].running > 0
    /\ c_calls' = [c_calls EXCEPT ![c].running = @ - 1,
                                  ![c].semaphore = @ + 1,
                                  ![c].failed = @ \/ (result = "failed")]
    /\ UNCHANGED <<n_vars, s_vars, u_vars, e_vars, z_vars, p_vars>>

\* lines 106-124: the initial files are joined; the remaining files are
\* queued on the same semaphore
ConcSignRemaining(c) ==
    /\ c_calls[c].pc = "initial"
    /\ c_calls[c].queued = 0 /\ c_calls[c].running = 0
    /\ c_calls' = IF c_calls[c].failed
                  THEN [c_calls EXCEPT ![c].pc = "raised"]
                  ELSE [c_calls EXCEPT ![c].pc = "remaining",
                                       ![c].queued = c_calls[c].remaining]
    /\ UNCHANGED <<n_vars, s_vars, u_vars, e_vars, z_vars, p_vars>>

\* line 125: the remaining files are joined
ConcSignJoin(c) ==
    /\ c_calls[c].pc = "remaining"
    /\ c_calls[c].queued = 0 /\ c_calls[c].running = 0
    /\ c_calls' = [c_calls EXCEPT ![c].pc =
                       IF c_calls[c].failed THEN "raised" ELSE "done"]
    /\ UNCHANGED <<n_vars, s_vars, u_vars, e_vars, z_vars, p_vars>>

NextConcurrent ==
    \/ \E c \in DOMAIN c_calls : ConcSignInitial(c)
    \/ \E c \in DOMAIN c_calls : ConcFileStart(c)
    \/ \E c \in DOMAIN c_calls : \E r \in {"ok", "failed"} : ConcFileSettle(c, r)
    \/ \E c \in DOMAIN c_calls : ConcSignRemaining(c)
    \/ \E c \in DOMAIN c_calls : ConcSignJoin(c)

InitConcurrent ==
    /\ NotarizeIdle
    /\ SignIdle
    /\ UnlockIdle
    /\ ExtractIdle
    /\ ZipIdle
    /\ PipelineIdle
    /\ \E k \in 1..MaxCalls :
          c_calls \in [1..k -> {SignCall(i, r) : i \in {1, MaxCallFiles},
                                                r \in {0, MaxCallFiles}}]

SpecConcurrent == InitConcurrent /\ [][NextConcurrent]_vars


(***************************************************************************)
(* Claims about concurrent calls of sign (checked under SpecConcurrent).   *)
(***************************************************************************)
RECURSIVE TotalInFlight(_)
\* the per-file signing commands in flight, over the first k calls
TotalInFlight(k) ==
    IF k = 0 THEN 0 ELSE c_calls[k].running + TotalInFlight(k - 1)

\* C19: while sign runs concurrently for several records, the per-file
\* signing commands in flight over all records together are at most 10.
C19_TotalInFlightAtMostTen == TotalInFlight(Len(c_calls)) <= 10


(***************************************************************************)
(* sign_and_notarize_all                                                   *)
(*                                                                         *)
(* The run calls the stages one after the other; a stage that is awaited   *)
(* runs as modelled above (extract_all_apps, unlock_keychain).  p_stages   *)
(* records the calls in the order the run makes them.                      *)
(***************************************************************************)
\* the locals and inputs of wrap_notarization_with_sudo, all_paths apart
n_locals == <<accounts, key_config, task_id, n_pc, counter, acct, futures,
              now, issued, waves, n_error>>

\* the values of key_config['notarize_type']
NotarizeTypes == {"multi_account", "single_account"}

ExtractAwaited_notAwaited(pc) == TRUE

\* line 411: `await extract_all_apps(...)`: the run goes on when the call has
\* returned or raised
ExtractAwaited(pc) == pc \in {"returned", "raised"}

StageRaised_swallowed(pc) == FALSE

\* lines 408-417: no call is wrapped in try/except: what a stage raises ends
\* the run
StageRaised(pc) == pc = "raised"

\* line 312: sign(key_config, app, entitlements_path) passes three arguments
\* to `async def sign(config, app, key, entitlements_path)`: the call raises
\* TypeError, for the first record of the batch
SignCallRaises(records) == records # <<>>

\* line 419: poll_uuids is bound only by the assignment of line 417
PollUuidsBound(notarize_type) == notarize_type = "multi_account"

\* lines 413-427, entered when unlock_keychain has returned.  Nothing is
\* awaited for long here: sign_all_apps raises at its first record, and with
\* no record the packager and the submitter have nothing to do.
RestOfRun(records, notarize_type) ==
    IF SignCallRaises(records)
    THEN [pc |-> "raised", stages |-> <<"sign_all_apps">>,
          error |-> [type |-> "TypeError", msg |-> <<"sign() missing 1 required positional argument">>]]
    ELSE IF notarize_type = "multi_account"
    THEN [pc |-> "done",
          stages |-> <<"sign_all_apps", "create_all_app_zipfiles",
                       "wrap_notarization_with_sudo">>,
          error |-> NoError]
    ELSE IF PollUuidsBound(notarize_type)
    THEN [pc |-> "done", stages |-> <<"sign_all_apps">>, error |-> NoError]
    ELSE [pc |-> "raised", stages |-> <<"sign_all_apps">>,
          error |-> [type |-> "NameError", msg |-> <<"poll_uuids">>]]

\* lines 402-408: work_dir, entitlements_path, key_config = get_key_config(...)
PipelineGetKeyConfig ==
    /\ p_pc = "start"
    /\ p_stages' = Append(p_stages, "get_key_config")
    /\ IF p_has_key
       THEN p_pc' = "key_config" /\ p_error' = p_error
       ELSE /\ p_pc' = "raised"
            /\ p_error' = IScriptError(<<"Unknown key config">>)
    /\ UNCHANGED <<p_has_key, p_artifacts>>
    /\ UNCHANGED <<n_vars, s_vars, u_vars, e_vars, z_vars, c_vars>>

\* lines 410-411: all_paths = get_app_paths(config, task); extract_all_apps
\* is called
PipelineGetAppPaths ==
    /\ p_pc = "key_config"
    /\ all_paths' = Batch(p_artifacts, 0)
    /\ p_stages' = p_stages \o <<"get_app_paths", "extract_all_apps">>
    /\ e_pc' = "loop"
    /\ p_pc' = "extract"
    /\ UNCHANGED <<p_has_key, p_artifacts, p_error>>
    /\ UNCHANGED <<e_counter, e_tasks, e_error, fs, e_run, e_used>>
    /\ UNCHANGED <<n_locals, s_vars, u_vars, z_vars, c_vars>>

\* lines 411-412: extract_all_apps is over; unlock_keychain is called with
\* the keychain and its password
PipelineAfterExtract ==
    /\ p_pc = "extract"
    /\ ExtractAwaited(e_pc)
    /\ IF StageRaised(e_pc)
       THEN /\ p_pc' = "raised"
            /\ p_error' = e_error
            /\ UNCHANGED <<p_stages, u_pc, keychain_password>>
       ELSE /\ p_pc' = "unlock"
            /\ p_stages' = Append(p_stages, "unlock_keychain")
            /\ u_pc' = "start"
            /\ keychain_password' = key_config.keychain_password
            /\ p_error' = p_error
    /\ UNCHANGED <<p_has_key, p_artifacts>>
    /\ UNCHANGED <<child, prompts, elapsed, index, sendline_calls, u_error>>
    /\ UNCHANGED <<n_vars, s_vars, e_vars, z_vars, c_vars>>

\* lines 412-427: unlock_keychain is over; the rest of the run
PipelineAfterUnlock ==
    /\ p_pc = "unlock"
    /\ u_pc \in {"done", "raised"}
    /\ IF StageRaised(u_pc)
       THEN /\ p_pc' = "raised"
            /\ p_error' = u_error
            /\ p_stages' = p_stages
       ELSE LET rest == RestOfRun(all_paths, key_config.notarize_type)
            IN  /\ p_pc' = rest.pc
                /\ p_error' = rest.error
                /\ p_stages' = p_stages \o rest.stages
    /\ UNCHANGED <<p_has_key, p_artifacts>>
    /\ UNCHANGED <<n_vars, s_vars, u_vars, e_vars, z_vars, c_vars>>

NextPipeline ==
    \/ PipelineGetKeyConfig
    \/ PipelineGetAppPaths
    \/ ExtractLoopBody
    \/ ExtractAwait
    \/ \E t \in DOMAIN e_tasks : ExtractStart(t)
    \/ \E t \in DOMAIN e_tasks : \E r \in {"ok", "failed"} : ExtractSettle(t, r)
    \/ ExtractJoin
    \/ PipelineAfterExtract
    \/ UnlockSpawn
    \/ ChildPrompts
    \/ \E st \in {0, 1} : ChildExits(st, None)
    \/ ChildExits(None, SIGHUP)
    \/ TimePasses
    \/ UnlockExpect
    \/ \E exc \in SendlineOutcomes : UnlockTestAndSend(exc)
    \/ PipelineAfterUnlock

InitPipeline ==
    /\ p_pc = "start"
    /\ p_has_key \in BOOLEAN
    /\ p_artifacts \in 0..MaxApps
    /\ p_stages = <<>>
    /\ p_error = NoError
    /\ \E t \in NotarizeTypes :
          key_config = [KeyConfig(Lit("hunter2")) EXCEPT !.notarize_type = t]
    /\ all_paths = <<>>
    /\ NotarizeLocalsIdle
    /\ SignIdle
    /\ UnlockIdle
    /\ e_pc = "idle"
    /\ e_counter = 0
    /\ e_tasks = <<>>
    /\ e_error = NoError
    /\ fs = [d \in DirUniverse |-> AbsentDir]
    /\ e_run = 1
    /\ e_used = {}
    /\ ZipIdle
    /\ ConcurrentIdle

SpecPipeline == InitPipeline /\ [][NextPipeline]_vars


(***************************************************************************)
(* Claims about sign_and_notarize_all (checked under SpecPipeline).        *)
(***************************************************************************)
StageOrder ==
    <<"get_key_config", "get_app_paths", "extract_all_apps", "unlock_keychain",
      "sign_all_apps", "create_all_app_zipfiles", "wrap_notarization_with_sudo">>

IsPrefix(a, b) == Len(a) <= Len(b) /\ SubSeq(b, 1, Len(a)) = a

Called(stage) == \E k \in DOMAIN p_stages : p_stages[k] = stage

\* every record of the batch was extracted, successfully
ExtractionSettledOk ==
    /\ e_pc = "returned"
    /\ Len(e_tasks) = Len(all_paths)
    /\ \A t \in DOMAIN e_tasks : e_tasks[t].state = "ok"

KeyConfigFailed == Called("get_key_config") /\ ~p_has_key
ExtractionFailed ==
    e_pc = "raised" \/ \E t \in DOMAIN e_tasks : e_tasks[t].state = "failed"
UnlockRaised == u_pc = "raised"

ExternalCommandsSucceeded ==
    /\ Len(e_tasks) = p_artifacts
    /\ \A t \in DOMAIN e_tasks : e_tasks[t].state = "ok"
    /\ child.state = "exited"
    /\ child.exitstatus = 0
    /\ child.signalstatus = None

RunOver == p_pc \in {"done", "raised"}

\* C14: a run whose notarize_type is not 'multi_account' and whose external
\* commands all succeeded ends without error, having extracted, unlocked and
\* signed, with no archive creation and no submission; and a run that ends
\* without error under 'multi_account' has gone through packaging and
\* submission.
C14_SkipsNotarizationWithoutError ==
    /\ ( /\ p_has_key
         /\ key_config.notarize_type # "multi_account"
         /\ ExternalCommandsSucceeded
         /\ RunOver )
       => /\ p_pc = "done"
          /\ p_stages = SubSeq(StageOrder, 1, 5)
          /\ z_tasks = <<>> /\ issued = <<>>
    /\ (p_pc = "done" /\ key_config.notarize_type = "multi_account")
       => p_stages = StageOrder

\* C17: under 'multi_account', a run over a non-empty batch whose external
\* commands all succeeded ends without error, after all seven stages in
\* order, with one extraction, one archive creation and one submission for
\* every record.
C17_EveryRecordProcessedOnce ==
    ( /\ p_has_key
      /\ key_config.notarize_type = "multi_account"
      /\ p_artifacts >= 1
      /\ ExternalCommandsSucceeded
      /\ RunOver )
    => /\ p_pc = "done"
       /\ p_stages = StageOrder
       /\ \A i \in 1..p_artifacts :
             /\ Cardinality({t \in DOMAIN e_tasks :
                                e_tasks[t].dir = all_paths[i].parent_dir}) = 1
             /\ Cardinality({t \in DOMAIN z_tasks : z_tasks[t].app = i}) = 1
             /\ Cardinality({t \in DOMAIN issued : issued[t].app = i - 1}) = 1


====
